---- MODULE Spec2Model ----
(***************************************************************************)
(* Model of the Upstash-style REST gateway built by createApp: the bearer  *)
(* auth middleware, the POST / and POST /pipeline handlers, the onError    *)
(* mapper, and the ioredis client they drive (redis.call, redis.pipeline,  *)
(* pipeline.call, pipeline.exec).                                          *)
(*                                                                         *)
(* JavaScript runs each handler atomically between awaits, so one action   *)
(* is one run of handler code from one suspension point to the next.       *)
(***************************************************************************)
EXTENDS Integers, Sequences, FiniteSets, TLC

VARIABLES
    app,        \* the application: its configuration and what createApp made of it
    reqs,       \* ids of the requests the server has received
    path,       \* path[r]: the request's path
    cred,       \* cred[r]: what its Authorization header carries
    raw,        \* raw[r]: the request's body as sent
    pc,         \* pc[r]: where request r's processing stands
    entered,    \* entered[r]: a route handler has started running for r
    invoked,    \* invoked[r]: what r's handler handed to the store client
    settled,    \* settled[r]: what the store client gave back to r's handler
    responses,  \* responses[r]: the responses sent for r, in order
    pipe,       \* pipe[r]: the pipeline object r's handler created (0: none)
    pipelines   \* the pipeline objects of the client: each one's queued commands

vars == <<app, reqs, path, cred, raw, pc, entered, invoked, settled, responses, pipe, pipelines>>

-----------------------------------------------------------------------------
(* Bounds                                                                  *)

\* Longest top-level array of a request body.
MaxBody == 2
\* Longest command array (name plus arguments) inside a body.
MaxCmdLen == 2
\* Requests handled concurrently in ConcSpec and AppSpec.
NumRequests == 2
\* Connection errors the client reports in AppSpec.
MaxErrors == 1

-----------------------------------------------------------------------------
(* JSON values: a string is [str |-> s], an array [arr |-> <<...>>], an    *)
(* object [obj |-> ...].                                                   *)

Str(s) == [str |-> s]
Arr(a) == [arr |-> a]
JsonObject == [obj |-> "command"]

\* Array.isArray
IsArray(v) == "arr" \in DOMAIN v

SeqsUpTo(S, n) == UNION {[1..k -> S] : k \in 0..n}

Scalars == {Str("GET"), Str("k")}
Commands == {Arr(a) : a \in SeqsUpTo(Scalars, MaxCmdLen)}
Elements == Scalars \cup Commands
JsonValues == {Arr(a) : a \in SeqsUpTo(Elements, MaxBody)} \cup Scalars \cup {JsonObject}

\* A body as sent: text that is no JSON, or the text of a JSON value.
RawBodies == {[text |-> "invalid json"]} \cup {[json |-> v] : v \in JsonValues}

Paths == {"/", "/pipeline"}

\* Authorization header: absent, "Bearer <another token>", "Bearer <config.token>".
Creds == {"none", "wrong", "valid"}

\* What the store answers to one command.
StoreValues == {"OK", "v"}
StoreErrors == {"ERR unknown command"}

\* What a failing client call throws: an Error, or a value that is no Error.
Thrown == {[message |-> "Connection is closed."], [value |-> "boom"]}

-----------------------------------------------------------------------------
(* Responses                                                               *)

\* c.json(body, status)
Json(body, status) == [status |-> status, json |-> body]
\* c.text(text, status)
Text(text, status) == [status |-> status, text |-> text]

ErrorBody(m) == [error |-> m]
ResultBody(v) == [result |-> v]

\* error instanceof Error ? error.message : String(error)
ErrorMessage(e) == IF "message" \in DOMAIN e THEN e.message ELSE e.value

-----------------------------------------------------------------------------
(* Routing and authentication                                              *)

\* app.use("/", bearerAuth({ token })): the path the middleware is registered on.
AuthPattern == "/"

\* The router's test of a registered path against a request path: a path
\* without a wildcard matches that path only.
Matches(pattern, p) == pattern = "*" \/ pattern = p

\* bearerAuth: the header must be "Bearer " followed by the configured token.
Authorized(c) == c = "valid"

\* What bearerAuth throws on a rejected request: an HTTPException that carries
\* its status and its own response.
AuthFault == [status |-> 401, res |-> Text("Unauthorized", 401)]

\* onError putting the fault's message into the 500 body.
OnErrorLeaky(err) ==
    IF "status" \in DOMAIN err
    THEN IF "res" \in DOMAIN err THEN err.res ELSE Text("Unauthorized", err.status)
    ELSE Json(ErrorBody(ErrorMessage(err)), 500)

\* app.onError
OnError(err) ==
    IF "status" \in DOMAIN err
    THEN IF "res" \in DOMAIN err THEN err.res ELSE Text("Unauthorized", err.status)
    ELSE Json(ErrorBody("Internal server error"), 500)

-----------------------------------------------------------------------------
(* createApp and the store connection                                      *)

\* const { token, redisUrl = "redis://localhost:6379" } = config
DefaultRedisUrl == "redis://localhost:6379"

\* The configurations createApp is called with: token missing, empty or set,
\* redisUrl missing or set.
Configs ==
    { [redisUrl |-> "redis://cache:6379"],
      [token |-> ""],
      [token |-> "", redisUrl |-> "redis://cache:6379"],
      [token |-> "test-token"],
      [token |-> "test-token", redisUrl |-> "redis://cache:6379"] }

\* The configuration of the running server.
ServerConfig == [token |-> "test-token"]

\* Before createApp(config): no client, no listener, no middleware, no route.
NewApp(config) ==
    [config |-> config, state |-> "new", error |-> "", url |-> "",
     clients |-> 0, listeners |-> 0, middleware |-> {}, routes |-> {}, errors |-> 0]

\* createApp creating the Redis client and its listener before it validates
\* the token.
CreateAppClientFirst(config) ==
    LET url == IF "redisUrl" \in DOMAIN config THEN config.redisUrl ELSE DefaultRedisUrl
        connected == [NewApp(config) EXCEPT !.url = url, !.clients = 1, !.listeners = 1]
    IN  IF "token" \notin DOMAIN config \/ config.token = ""
        THEN [connected EXCEPT !.state = "threw",
                               !.error = "token is required in configuration"]
        ELSE [connected EXCEPT !.state = "created",
                               !.middleware = {AuthPattern}, !.routes = Paths]

\* createApp without redis.on("error", ...).
CreateAppNoListener(config) ==
    IF "token" \notin DOMAIN config \/ config.token = ""
    THEN [NewApp(config) EXCEPT !.state = "threw",
                                !.error = "token is required in configuration"]
    ELSE [NewApp(config) EXCEPT
             !.state = "created",
             !.url = IF "redisUrl" \in DOMAIN config THEN config.redisUrl
                     ELSE DefaultRedisUrl,
             !.clients = 1,
             !.middleware = {AuthPattern},
             !.routes = Paths]

\* createApp(config): throws on a missing or empty token; otherwise creates
\* the Redis client, registers its error listener, the middleware and the
\* routes, and returns the app.
CreateApp(config) ==
    IF "token" \notin DOMAIN config \/ config.token = ""
    THEN [NewApp(config) EXCEPT !.state = "threw",
                                !.error = "token is required in configuration"]
    ELSE [NewApp(config) EXCEPT
             !.state = "created",
             !.url = IF "redisUrl" \in DOMAIN config THEN config.redisUrl
                     ELSE DefaultRedisUrl,
             !.clients = 1,
             !.listeners = 1,
             !.middleware = {AuthPattern},
             !.routes = Paths]

\* The client emits "error": the listener logs it; an "error" event without a
\* listener is thrown by the emitter and ends the process.
OnRedisError(a) ==
    IF a.listeners > 0
    THEN [a EXCEPT !.errors = @ + 1]
    ELSE [a EXCEPT !.state = "crashed"]

\* The app exists and serves requests.
Serving == app.state = "created"

-----------------------------------------------------------------------------
(* Validation                                                              *)

Pass == [ok |-> TRUE]
Fail(m) == [ok |-> FALSE, error |-> m]

\* c.req.json(): succeeds exactly on a body that is JSON text.
Decodes(b) == "json" \in DOMAIN b

\* POST /: the checks before the store is called.
ValidateSingle(b) ==
    IF ~Decodes(b) THEN Fail("Invalid JSON body")
    ELSE IF ~IsArray(b.json)
         THEN Fail("Request body must be an array of command and arguments")
    ELSE IF Len(b.json.arr) = 0 THEN Fail("Command array cannot be empty")
    ELSE Pass

\* ValidateCommands as two loops: every element is tested for being an array
\* before any is tested for being empty.
ValidateCommandsTwoPass(body, i) ==
    LET notArrays == {j \in (i + 1)..Len(body) : ~IsArray(body[j])}
        empties == {j \in (i + 1)..Len(body) : IsArray(body[j]) /\ Len(body[j].arr) = 0}
        least(S) == CHOOSE j \in S : \A k \in S : j <= k
    IN  IF notArrays # {}
        THEN Fail("Command at index " \o ToString(least(notArrays) - 1) \o " must be an array")
        ELSE IF empties # {}
        THEN Fail("Command at index " \o ToString(least(empties) - 1) \o " cannot be empty")
        ELSE Pass

\* POST /pipeline: the loop over the commands, from index i (0-based) on.
RECURSIVE ValidateCommands(_, _)
ValidateCommands(body, i) ==
    IF i >= Len(body) THEN Pass
    ELSE IF ~IsArray(body[i + 1])
         THEN Fail("Command at index " \o ToString(i) \o " must be an array")
    ELSE IF Len(body[i + 1].arr) = 0
         THEN Fail("Command at index " \o ToString(i) \o " cannot be empty")
    ELSE ValidateCommands(body, i + 1)

\* ValidatePipeline with the top-level messages of POST /.
ValidatePipelineCopied(b) ==
    IF ~Decodes(b) THEN Fail("Invalid JSON body")
    ELSE IF ~IsArray(b.json)
         THEN Fail("Request body must be an array of command and arguments")
    ELSE IF Len(b.json.arr) = 0 THEN Fail("Command array cannot be empty")
    ELSE ValidateCommands(b.json.arr, 0)

\* POST /pipeline: the checks before the batch is built.
ValidatePipeline(b) ==
    IF ~Decodes(b) THEN Fail("Invalid JSON body")
    ELSE IF ~IsArray(b.json) THEN Fail("Request body must be an array of commands")
    ELSE IF Len(b.json.arr) = 0 THEN Fail("Pipeline cannot be empty")
    ELSE ValidateCommands(b.json.arr, 0)

-----------------------------------------------------------------------------
(* The store client                                                        *)

\* CallArgs without the slice: call(command[0], ...command).
CallArgsUnsliced(command) == [name |-> Head(command), args |-> command]

\* The arguments of redis.call / pipeline.call for one command array:
\* call(command[0], ...command.slice(1)).
CallArgs(command) == [name |-> Head(command), args |-> Tail(command)]

\* redis.call settles with the store's value, or fails.
CallFaults == {[message |-> m] : m \in StoreErrors} \cup Thrown
CallOutcomes == {[value |-> v] : v \in StoreValues} \cup {[thrown |-> e] : e \in CallFaults}

\* One entry of the list pipeline.exec resolves to: [error, result].
NoError == [null |-> TRUE]
Undefined == "undefined"
ExecEntries ==
    {<<NoError, v>> : v \in StoreValues} \cup {<<[message |-> m], Undefined>> : m \in StoreErrors}

\* pipeline.exec on a queue of n commands: one entry per queued command, or
\* null, or a failure of the call as a whole.
ExecOutcomes(n) ==
    {[results |-> l] : l \in [1..n -> ExecEntries]}
        \cup {[null |-> TRUE]} \cup {[thrown |-> e] : e \in Thrown}

\* One pipeline object, created once and used by every request.
PipelineShared(heap) == 1

\* redis.pipeline(): a new pipeline object on every call.
PipelineFor(heap) == Len(heap) + 1

\* Queue filling the batch from the last command of the body to the first.
RECURSIVE QueueReversed(_)
QueueReversed(body) ==
    IF body = <<>> THEN <<>>
    ELSE QueueReversed(Tail(body)) \o <<CallArgs(Head(body).arr)>>

\* The batch of the body's commands, as pipeline.call queues them.
RECURSIVE Queue(_)
Queue(body) ==
    IF body = <<>> THEN <<>> ELSE <<CallArgs(Head(body).arr)>> \o Queue(Tail(body))

-----------------------------------------------------------------------------
(* Response shaping                                                        *)

\* SingleResponse answering a store failure as a bad request.
SingleResponseBadRequest(o) ==
    IF "value" \in DOMAIN o
    THEN Json(ResultBody(o.value), 200)
    ELSE Json(ErrorBody("Failed to execute Redis command: " \o ErrorMessage(o.thrown)), 400)

\* SingleResponse answering an error reply of the store as a bad request and
\* any other failure as a server error.
SingleResponseByFault(o) ==
    IF "value" \in DOMAIN o
    THEN Json(ResultBody(o.value), 200)
    ELSE Json(ErrorBody("Failed to execute Redis command: " \o ErrorMessage(o.thrown)),
              IF o.thrown \in {[message |-> m] : m \in StoreErrors} THEN 400 ELSE 500)

\* POST /: try { result = await redis.call(...) } catch
SingleResponse(o) ==
    IF "value" \in DOMAIN o
    THEN Json(ResultBody(o.value), 200)
    ELSE Json(ErrorBody("Failed to execute Redis command: " \o ErrorMessage(o.thrown)), 500)

\* MapEntry keeping the result slot beside the error.
MapEntryBoth(e) ==
    IF e[1] # NoError THEN [error |-> e[1].message, result |-> e[2]] ELSE ResultBody(e[2])

\* results.map(([error, result]) => error ? { error: error.message } : { result })
MapEntry(e) == IF e[1] # NoError THEN ErrorBody(e[1].message) ELSE ResultBody(e[2])

\* PipelineFailure answering 502 Bad Gateway.
PipelineFailureBadGateway(e) ==
    Json(ErrorBody("Failed to execute pipeline: " \o ErrorMessage(e)), 502)

\* PipelineFailure hiding the exception's message.
PipelineFailureGeneric(e) == Json(ErrorBody("Failed to execute pipeline"), 500)

\* The catch of the pipeline attempt.
PipelineFailure(e) == Json(ErrorBody("Failed to execute pipeline: " \o ErrorMessage(e)), 500)

\* PipelineResponse giving up on the first failed command.
PipelineResponseAbort(o) ==
    IF "thrown" \in DOMAIN o THEN PipelineFailure(o.thrown)
    ELSE IF "null" \in DOMAIN o
         THEN Json(ErrorBody("Pipeline execution returned no results"), 500)
    ELSE IF \E i \in 1..Len(o.results) : o.results[i][1] # NoError
         THEN LET i == CHOOSE j \in 1..Len(o.results) : o.results[j][1] # NoError
              IN  Json(ErrorBody(o.results[i][1].message), 500)
    ELSE Json([array |-> [i \in 1..Len(o.results) |-> MapEntry(o.results[i])]], 200)

\* PipelineResponse without the test for null: results.map throws on null and
\* the catch answers.
PipelineResponseNoNullCheck(o) ==
    IF "thrown" \in DOMAIN o THEN PipelineFailure(o.thrown)
    ELSE IF "null" \in DOMAIN o
         THEN PipelineFailure([message |-> "Cannot read properties of null (reading 'map')"])
    ELSE Json([array |-> [i \in 1..Len(o.results) |-> MapEntry(o.results[i])]], 200)

\* POST /pipeline: what follows await pipeline.exec().
PipelineResponse(o) ==
    IF "thrown" \in DOMAIN o THEN PipelineFailure(o.thrown)
    ELSE IF "null" \in DOMAIN o
         THEN Json(ErrorBody("Pipeline execution returned no results"), 500)
    ELSE Json([array |-> [i \in 1..Len(o.results) |-> MapEntry(o.results[i])]], 200)

-----------------------------------------------------------------------------
(* Actions                                                                 *)

\* The handler returns a response: it is sent and the request is over.
Respond(r, res) ==
    /\ responses' = [responses EXCEPT ![r] = Append(@, res)]
    /\ pc' = [pc EXCEPT ![r] = "done"]

\* The middleware chain has reached the route handler of request r.
HandlerReady(r) ==
    \/ pc[r] = "handler"
    \/ pc[r] = "received" /\ ~Matches(AuthPattern, path[r])

\* The bearerAuth middleware runs for a request on a path it is registered on:
\* it calls next(), or throws and app.onError answers.
BearerAuth(r) ==
    /\ Serving
    /\ r \in reqs
    /\ pc[r] = "received"
    /\ Matches(AuthPattern, path[r])
    /\ IF Authorized(cred[r])
       THEN pc' = [pc EXCEPT ![r] = "handler"] /\ UNCHANGED responses
       ELSE Respond(r, OnError(AuthFault))
    /\ UNCHANGED <<app, reqs, path, cred, raw, entered, invoked, settled, pipe, pipelines>>

\* app.post("/"): decode, validate, and either answer 400 or call the store.
PostSingle(r) ==
    /\ Serving
    /\ r \in reqs
    /\ path[r] = "/"
    /\ HandlerReady(r)
    /\ entered' = [entered EXCEPT ![r] = TRUE]
    /\ LET v == ValidateSingle(raw[r]) IN
       IF ~v.ok
       THEN Respond(r, Json(ErrorBody(v.error), 400)) /\ UNCHANGED invoked
       ELSE /\ invoked' = [invoked EXCEPT
                   ![r] = Append(@, [call |-> CallArgs(raw[r].json.arr)])]
            /\ pc' = [pc EXCEPT ![r] = "awaitCall"]
            /\ UNCHANGED responses
    /\ UNCHANGED <<app, reqs, path, cred, raw, settled, pipe, pipelines>>

\* redis.call settles and app.post("/") answers.
CallSettles(r) ==
    /\ Serving
    /\ r \in reqs
    /\ pc[r] = "awaitCall"
    /\ \E o \in CallOutcomes :
          /\ settled' = [settled EXCEPT ![r] = Append(@, o)]
          /\ Respond(r, SingleResponse(o))
    /\ UNCHANGED <<app, reqs, path, cred, raw, entered, invoked, pipe, pipelines>>

\* The pipeline objects after request r's handler has created its pipeline
\* object p and queued the first n commands of body on it.
Queued(heap, p, body, n) ==
    LET h == IF p > Len(heap) THEN Append(heap, <<>>) ELSE heap
    IN  [h EXCEPT ![p] = @ \o SubSeq(Queue(body), 1, n)]

\* PostPipeline executing the batch in a finally: what was queued before
\* pipeline.call threw is still sent to the store.
PostPipelineExecInFinally(r) ==
    /\ Serving
    /\ r \in reqs
    /\ path[r] = "/pipeline"
    /\ HandlerReady(r)
    /\ entered' = [entered EXCEPT ![r] = TRUE]
    /\ LET v == ValidatePipeline(raw[r])
           p == PipelineFor(pipelines)
       IN
       IF ~v.ok
       THEN /\ Respond(r, Json(ErrorBody(v.error), 400))
            /\ UNCHANGED <<invoked, settled, pipe, pipelines>>
       ELSE LET body == raw[r].json.arr IN
            \/ /\ pipelines' = Queued(pipelines, p, body, Len(body))
               /\ pipe' = [pipe EXCEPT ![r] = p]
               /\ invoked' = [invoked EXCEPT ![r] = Append(@, [exec |-> pipelines'[p]])]
               /\ pc' = [pc EXCEPT ![r] = "awaitExec"]
               /\ UNCHANGED <<responses, settled>>
            \/ \E k \in 1..Len(body), e \in Thrown :
                  /\ pipelines' = Queued(pipelines, p, body, k - 1)
                  /\ pipe' = [pipe EXCEPT ![r] = p]
                  /\ settled' = [settled EXCEPT ![r] = Append(@, [thrown |-> e])]
                  /\ Respond(r, PipelineFailure(e))
                  /\ invoked' = [invoked EXCEPT ![r] = Append(@, [exec |-> pipelines'[p]])]
    /\ UNCHANGED <<app, reqs, path, cred, raw>>

\* app.post("/pipeline"): decode, validate, and either answer 400, or build
\* the batch and execute it, or answer 500 when building it throws.
PostPipeline(r) ==
    /\ Serving
    /\ r \in reqs
    /\ path[r] = "/pipeline"
    /\ HandlerReady(r)
    /\ entered' = [entered EXCEPT ![r] = TRUE]
    /\ LET v == ValidatePipeline(raw[r])
           p == PipelineFor(pipelines)
       IN
       IF ~v.ok
       THEN /\ Respond(r, Json(ErrorBody(v.error), 400))
            /\ UNCHANGED <<invoked, settled, pipe, pipelines>>
       ELSE LET body == raw[r].json.arr IN
            \/ /\ pipelines' = Queued(pipelines, p, body, Len(body))
               /\ pipe' = [pipe EXCEPT ![r] = p]
               /\ invoked' = [invoked EXCEPT ![r] = Append(@, [exec |-> pipelines'[p]])]
               /\ pc' = [pc EXCEPT ![r] = "awaitExec"]
               /\ UNCHANGED <<responses, settled>>
            \/ \E k \in 1..Len(body), e \in Thrown :
                  \* pipeline.call throws on the command at index k - 1
                  /\ pipelines' = Queued(pipelines, p, body, k - 1)
                  /\ pipe' = [pipe EXCEPT ![r] = p]
                  /\ settled' = [settled EXCEPT ![r] = Append(@, [thrown |-> e])]
                  /\ Respond(r, PipelineFailure(e))
                  /\ UNCHANGED invoked
    /\ UNCHANGED <<app, reqs, path, cred, raw>>

\* pipeline.exec settles and app.post("/pipeline") answers.
ExecSettles(r) ==
    /\ Serving
    /\ r \in reqs
    /\ pc[r] = "awaitExec"
    /\ \E o \in ExecOutcomes(Len(pipelines[pipe[r]])) :
          /\ settled' = [settled EXCEPT ![r] = Append(@, o)]
          /\ Respond(r, PipelineResponse(o))
    /\ UNCHANGED <<app, reqs, path, cred, raw, entered, invoked, pipe, pipelines>>

Step(r) ==
    \/ BearerAuth(r)
    \/ PostSingle(r)
    \/ CallSettles(r)
    \/ PostPipeline(r)
    \/ ExecSettles(r)

Next == \E r \in 1..NumRequests : Step(r)

-----------------------------------------------------------------------------
(* Specifications                                                          *)

\* The state after createApp, with the requests in rs received and not yet
\* processed.
Received(rs, creds, bodies) ==
    /\ app = CreateApp(ServerConfig)
    /\ reqs = rs
    /\ path \in [rs -> Paths]
    /\ cred \in [rs -> creds]
    /\ raw \in [rs -> bodies]
    /\ pc = [r \in rs |-> "received"]
    /\ entered = [r \in rs |-> FALSE]
    /\ invoked = [r \in rs |-> <<>>]
    /\ settled = [r \in rs |-> <<>>]
    /\ responses = [r \in rs |-> <<>>]
    /\ pipe = [r \in rs |-> 0]
    /\ pipelines = <<>>

\* One request, any body.
Init == Received({1}, Creds, RawBodies)

Spec == Init /\ [][Next]_vars

\* Every handler the runtime has scheduled runs, and every store invocation
\* settles.
FairSpec == Spec /\ \A r \in 1..NumRequests : WF_vars(Step(r))

\* Bodies of the concurrent requests: an undecodable one, a single command and
\* two pipelines of different commands.
ConcBodies ==
    { [text |-> "invalid json"],
      [json |-> Arr(<<Str("GET"), Str("k")>>)],
      [json |-> Arr(<<Arr(<<Str("GET"), Str("k")>>)>>)],
      [json |-> Arr(<<Arr(<<Str("k")>>)>>)] }

\* Their Authorization headers: absent, or carrying the configured token.
ConcCreds == {"none", "valid"}

\* NumRequests requests in flight together.
ConcInit == Received(1..NumRequests, ConcCreds, ConcBodies)

ConcSpec == ConcInit /\ [][Next]_vars

-----------------------------------------------------------------------------
(* Vocabulary of the properties                                            *)

Done(r) == pc[r] = "done"

\* The response request r received.
Response(r) == responses[r][1]

\* The decoded top-level array of r's body.
Body(r) == raw[r].json.arr

HasArrayBody(r) == Decodes(raw[r]) /\ IsArray(raw[r].json)

\* Element e of a pipeline body is no command: not an array, or an empty one.
Offending(e) == ~IsArray(e) \/ e.arr = <<>>

\* A validation rule rejects body b on path p.
Rejected(p, b) ==
    \/ ~Decodes(b)
    \/ ~IsArray(b.json)
    \/ b.json.arr = <<>>
    \/ p = "/pipeline" /\ \E i \in 1..Len(b.json.arr) : Offending(b.json.arr[i])

-----------------------------------------------------------------------------
(* C1: a request without the configured bearer token, on either path, is   *)
(* answered 401 and never reaches a handler: its body is not validated and *)
(* the store client receives no command and no batch.                      *)
C1_UnauthenticatedNeverRuns ==
    \A r \in reqs :
        ~Authorized(cred[r]) =>
            /\ ~entered[r]
            /\ invoked[r] = <<>>
            /\ Done(r) => Response(r).status = 401

(* C2: an authenticated request is answered 400 only when a validation     *)
(* rule rejects its body, and then the store client was never invoked for  *)
(* it; nothing the store reports produces a 400.                           *)
C2_BadRequestOnlyFromValidation ==
    \A r \in reqs :
        Authorized(cred[r]) /\ Done(r) =>
            /\ Response(r).status = 400 =>
                  Rejected(path[r], raw[r]) /\ invoked[r] = <<>> /\ settled[r] = <<>>
            /\ settled[r] # <<>> => Response(r).status # 400

\* An authenticated pipeline whose first command is valid and whose second
\* element is not was answered 400.
C2_Witness ==
    \E r \in reqs :
        /\ Authorized(cred[r]) /\ path[r] = "/pipeline" /\ Done(r)
        /\ HasArrayBody(r) /\ Len(Body(r)) = 2
        /\ ~Offending(Body(r)[1]) /\ Offending(Body(r)[2])
        /\ Response(r).status = 400

(* C3: when the batch call of an authenticated pipeline of N commands      *)
(* returns its outcome list, the response is 200 with exactly N entries,   *)
(* entry i being {error: message} if command i failed and {result: value}  *)
(* otherwise, whichever commands failed.                                   *)
C3_PerCommandIsolation ==
    \A r \in reqs :
        /\ Authorized(cred[r]) /\ path[r] = "/pipeline" /\ Done(r)
        /\ settled[r] # <<>> /\ "results" \in DOMAIN settled[r][1]
        => LET l == settled[r][1].results
               res == Response(r)
           IN  /\ res.status = 200
               /\ "array" \in DOMAIN res.json
               /\ Len(res.json.array) = Len(Body(r))
               /\ Len(l) = Len(Body(r))
               /\ \A i \in 1..Len(l) :
                     res.json.array[i] =
                         IF l[i][1] = NoError
                         THEN [result |-> l[i][2]]
                         ELSE [error |-> l[i][1].message]

\* A pipeline of two commands was answered after its first command failed at
\* the store and its second succeeded.
C3_Witness ==
    \E r \in reqs :
        /\ Authorized(cred[r]) /\ path[r] = "/pipeline" /\ Done(r)
        /\ settled[r] # <<>> /\ "results" \in DOMAIN settled[r][1]
        /\ Len(settled[r][1].results) = 2
        /\ settled[r][1].results[1][1] # NoError
        /\ settled[r][1].results[2][1] = NoError

\* The indices (1-based) of the offending elements of r's body.
OffendingAt(r) == {i \in 1..Len(Body(r)) : Offending(Body(r)[i])}

(* C4: a pipeline body that is a non-empty array with an offending element *)
(* is answered 400 with the message of the smallest offending index alone: *)
(* "must be an array" if that element is no array, "cannot be empty" if it *)
(* is an empty one.                                                        *)
C4_FirstOffendingIndex ==
    \A r \in reqs :
        /\ Authorized(cred[r]) /\ path[r] = "/pipeline" /\ Done(r)
        /\ HasArrayBody(r) /\ OffendingAt(r) # {}
        => LET i == CHOOSE j \in OffendingAt(r) : \A k \in OffendingAt(r) : j <= k
               at == "Command at index " \o ToString(i - 1)
           IN  Response(r) =
                   Json([error |-> IF IsArray(Body(r)[i])
                                   THEN at \o " cannot be empty"
                                   ELSE at \o " must be an array"], 400)

\* A pipeline whose two elements both offend, in different ways, was answered.
C4_Witness ==
    \E r \in reqs :
        /\ Authorized(cred[r]) /\ path[r] = "/pipeline" /\ Done(r)
        /\ HasArrayBody(r) /\ OffendingAt(r) = {1, 2}
        /\ IsArray(Body(r)[1]) /\ ~IsArray(Body(r)[2])

(* C5: for an authenticated request the rules decode, is-array, non-empty  *)
(* apply in that order and the first that fails decides the response, at   *)
(* status 400 with the message of that rule and that path.                 *)
C5_TopLevelRules ==
    \A r \in reqs :
        Authorized(cred[r]) /\ Done(r) =>
            LET single == path[r] = "/" IN
            /\ ~Decodes(raw[r]) => Response(r) = Json([error |-> "Invalid JSON body"], 400)
            /\ Decodes(raw[r]) /\ ~IsArray(raw[r].json) =>
                  Response(r) =
                      Json([error |-> IF single
                                      THEN "Request body must be an array of command and arguments"
                                      ELSE "Request body must be an array of commands"], 400)
            /\ HasArrayBody(r) /\ Body(r) = <<>> =>
                  Response(r) =
                      Json([error |-> IF single
                                      THEN "Command array cannot be empty"
                                      ELSE "Pipeline cannot be empty"], 400)

\* An authenticated pipeline request with an empty array was answered.
C5_Witness ==
    \E r \in reqs :
        /\ Authorized(cred[r]) /\ path[r] = "/pipeline" /\ Done(r)
        /\ HasArrayBody(r) /\ Body(r) = <<>>

(* C6: an authenticated POST / with a non-empty array body invokes the     *)
(* store client exactly once, with name body[0] and arguments body[1..] in *)
(* order; a value v is answered 200 {result: v}, a failure with message m  *)
(* 500 {error: "Failed to execute Redis command: " + m}.                   *)
C6_SingleCommand ==
    \A r \in reqs :
        /\ Authorized(cred[r]) /\ path[r] = "/"
        /\ HasArrayBody(r) /\ Body(r) # <<>>
        => /\ pc[r] \in {"received", "handler"} => invoked[r] = <<>>
           /\ pc[r] \in {"awaitCall", "done"} =>
                 /\ Len(invoked[r]) = 1
                 /\ "call" \in DOMAIN invoked[r][1]
                 /\ invoked[r][1].call.name = Body(r)[1]
                 /\ invoked[r][1].call.args = [i \in 1..(Len(Body(r)) - 1) |-> Body(r)[i + 1]]
           /\ Done(r) =>
                 /\ Len(settled[r]) = 1
                 /\ LET o == settled[r][1] IN
                    Response(r) =
                        IF "value" \in DOMAIN o
                        THEN Json([result |-> o.value], 200)
                        ELSE Json([error |-> "Failed to execute Redis command: "
                                                 \o ErrorMessage(o.thrown)], 500)

\* A command with an argument was sent to the store, which rejected it, and
\* the request was answered.
C6_Witness ==
    \E r \in reqs :
        /\ Authorized(cred[r]) /\ path[r] = "/" /\ Done(r)
        /\ HasArrayBody(r) /\ Len(Body(r)) = 2 /\ Body(r)[1] # Body(r)[2]
        /\ "thrown" \in DOMAIN settled[r][1]
        /\ settled[r][1].thrown \in {[message |-> m] : m \in StoreErrors}

\* The batch call of r was made and settled with outcome o.
ExecSettled(r) == path[r] = "/pipeline" /\ Done(r) /\ invoked[r] # <<>>

NoResultsResponse == Json([error |-> "Pipeline execution returned no results"], 500)

(* C7 as stated: whenever the batch invocation cannot be performed, both   *)
(* when the batch call fails wholesale and when it returns no result list, *)
(* the response is exactly 500 {error: "Pipeline execution returned no     *)
(* results"}.                                                              *)
C7_NoResultsOnAnyBatchFailure ==
    \A r \in reqs :
        ExecSettled(r) /\ "results" \notin DOMAIN settled[r][1]
            => Response(r) = NoResultsResponse

(* C7 as amended: a batch call that returns no result list is answered     *)
(* exactly 500 {error: "Pipeline execution returned no results"}; a batch  *)
(* call that fails wholesale is answered 500 {error: "Failed to execute    *)
(* pipeline: " + message}; neither response holds per-command outcomes.    *)
C7_NoResultsOnNullOnly ==
    \A r \in reqs :
        ExecSettled(r) =>
            /\ "null" \in DOMAIN settled[r][1] => Response(r) = NoResultsResponse
            /\ "thrown" \in DOMAIN settled[r][1] =>
                  Response(r) =
                      Json([error |-> "Failed to execute pipeline: "
                                          \o ErrorMessage(settled[r][1].thrown)], 500)
            /\ "results" \notin DOMAIN settled[r][1] => "array" \notin DOMAIN Response(r).json

\* A batch call returned no result list and the request was answered.
C7_Witness ==
    \E r \in reqs : ExecSettled(r) /\ "null" \in DOMAIN settled[r][1]

(* C8: every request receives exactly one response, with a status among    *)
(* 200, 400, 401 and 500: never more than one, none before the request is  *)
(* over, and, every store invocation settling, eventually one.             *)
C8_ExactlyOneResponse ==
    /\ [](\A r \in reqs :
             /\ Len(responses[r]) = (IF Done(r) THEN 1 ELSE 0)
             /\ \A i \in 1..Len(responses[r]) :
                   responses[r][i].status \in {200, 400, 401, 500})
    /\ \A r \in 1..NumRequests : <>(r \in reqs => Len(responses[r]) = 1)

\* A request whose batch call failed as a whole was answered.
C8_Witness ==
    \E r \in reqs :
        /\ ExecSettled(r) /\ "thrown" \in DOMAIN settled[r][1]
        /\ Len(responses[r]) = 1

\* The batch of r's own commands: entry j is command j of r's body.
OwnBatch(r, batch) ==
    /\ Len(batch) = Len(Body(r))
    /\ \A j \in 1..Len(batch) :
          /\ batch[j].name = Body(r)[j].arr[1]
          /\ batch[j].args = Tail(Body(r)[j].arr)

(* C9: under any interleaving a request's response depends only on its own *)
(* credential, body and store outcomes: no two requests share a pipeline   *)
(* object, the batch a request executes holds exactly its own commands,    *)
(* the outcome list it gets has one entry per command of its own, and two  *)
(* requests alike in path, credential, body and outcomes are answered      *)
(* alike.                                                                  *)
C9_RequestIsolation ==
    \A r \in reqs :
        /\ \A q \in reqs \ {r} : pipe[r] # 0 => pipe[q] # pipe[r]
        /\ \A i \in 1..Len(invoked[r]) :
              "exec" \in DOMAIN invoked[r][i] => OwnBatch(r, invoked[r][i].exec)
        /\ \A i \in 1..Len(settled[r]) :
              "results" \in DOMAIN settled[r][i] =>
                  Len(settled[r][i].results) = Len(Body(r))
        /\ \A q \in reqs :
              /\ Done(r) /\ Done(q)
              /\ path[q] = path[r] /\ cred[q] = cred[r] /\ raw[q] = raw[r]
              /\ settled[q] = settled[r]
              => responses[q] = responses[r]

\* Two pipelines of different commands were both executed and answered, the
\* second request having built its batch first.
C9_Witness ==
    /\ {1, 2} \subseteq reqs
    /\ ExecSettled(1) /\ ExecSettled(2)
    /\ raw[1] # raw[2]
    /\ pipe[2] < pipe[1]
    /\ Response(1).status = 200 /\ Response(2).status = 200

(* C10: an exception that escapes the pipeline attempt as a whole, thrown  *)
(* while the batch is built or by the batch call, is answered 500 {error:  *)
(* "Failed to execute pipeline: " + message}, message being the            *)
(* exception's message text.                                               *)
C10_EscapedException ==
    \A r \in reqs :
        /\ path[r] = "/pipeline" /\ Done(r)
        /\ settled[r] # <<>> /\ "thrown" \in DOMAIN settled[r][1]
        => LET e == settled[r][1].thrown
               m == IF "message" \in DOMAIN e THEN e.message ELSE e.value
           IN  Response(r) = Json([error |-> "Failed to execute pipeline: " \o m], 500)

\* Queueing the second command of a pipeline threw and the request was
\* answered without the batch call being made.
C10_Witness ==
    \E r \in reqs :
        /\ path[r] = "/pipeline" /\ Done(r)
        /\ invoked[r] = <<>> /\ settled[r] # <<>>
        /\ "thrown" \in DOMAIN settled[r][1]
        /\ Len(pipelines[pipe[r]]) = 1


\* The tags of an outcome object.
Tags(o) == DOMAIN o \cap {"result", "error"}

HasPipeline(r) == path[r] = "/pipeline" /\ pipe[r] # 0

\* Queueing a command of r's body threw: the pipeline object holds fewer
\* commands than the body.
BuildThrew(r) == HasPipeline(r) /\ Len(pipelines[pipe[r]]) < Len(Body(r))

(* C15: the N commands of a validated pipeline are added to one batch, in  *)
(* input order, each with name command[0] and arguments command[1..],      *)
(* before the batch is executed; the batch is executed once per request,   *)
(* no state lies between two additions, and no command of a pipeline       *)
(* request goes through the single-command call.                           *)
C15_BatchedDispatch ==
    \A r \in reqs :
        path[r] = "/pipeline" =>
            /\ Len(invoked[r]) <= 1
            /\ \A i \in 1..Len(invoked[r]) : "call" \notin DOMAIN invoked[r][i]
            /\ HasPipeline(r) /\ ~Done(r) => Len(pipelines[pipe[r]]) = Len(Body(r))
            /\ HasPipeline(r) /\ ~BuildThrew(r) =>
                  /\ invoked[r] = <<[exec |-> pipelines[pipe[r]]]>>
                  /\ \A j \in 1..Len(Body(r)) :
                        LET command == Body(r)[j].arr IN
                        /\ pipelines[pipe[r]][j].name = command[1]
                        /\ pipelines[pipe[r]][j].args =
                               [i \in 1..(Len(command) - 1) |-> command[i + 1]]

\* The batch of two different commands, each with an argument, is being
\* executed.
C15_Witness ==
    \E r \in reqs :
        /\ HasPipeline(r) /\ pc[r] = "awaitExec"
        /\ Len(Body(r)) = 2 /\ Body(r)[1] # Body(r)[2]
        /\ Len(Body(r)[1].arr) = 2 /\ Len(Body(r)[2].arr) = 2

(* C17: when adding the command at index k throws, the batch is never      *)
(* executed: the store client receives none of the commands 0..k-1, no     *)
(* per-command outcome is produced, and the request is answered 500        *)
(* {error: "Failed to execute pipeline: " + message}.                      *)
C17_BuildFailureSendsNothing ==
    \A r \in reqs :
        BuildThrew(r) =>
            /\ Done(r)
            /\ invoked[r] = <<>>
            /\ Len(settled[r]) = 1 /\ DOMAIN settled[r][1] = {"thrown"}
            /\ Response(r) =
                   Json([error |-> "Failed to execute pipeline: "
                                       \o ErrorMessage(settled[r][1].thrown)], 500)

\* Adding the second of two commands threw an Error after the first was
\* queued.
C17_Witness ==
    \E r \in reqs :
        /\ BuildThrew(r) /\ Len(Body(r)) = 2
        /\ pipelines[pipe[r]] = <<CallArgs(Body(r)[1].arr)>>
        /\ "message" \in DOMAIN settled[r][1].thrown


\* Requests r and q sent the same command to POST / with the configured
\* token, and both were answered.
SameCommandTwice(r, q) ==
    /\ r # q
    /\ path[r] = "/" /\ path[q] = "/"
    /\ Authorized(cred[r]) /\ Authorized(cred[q])
    /\ raw[r] = raw[q]
    /\ HasArrayBody(r) /\ Body(r) # <<>>
    /\ Done(r) /\ Done(q)

\* The shape of a JSON response: its status and the tags of its body.
Shape(res) == [status |-> res.status, tags |-> Tags(res.json)]

\* The store answered r's command with a value.
Succeeded(r) == "value" \in DOMAIN settled[r][1]

(* C13 as stated: the same command sent twice is answered with the same    *)
(* status and body when the store answers it alike, and in every case the  *)
(* two responses have the same shape.                                      *)
C13_SameShapeInEveryCase ==
    \A r, q \in reqs :
        SameCommandTwice(r, q) =>
            /\ settled[r] = settled[q] => Response(r) = Response(q)
            /\ Shape(Response(r)) = Shape(Response(q))

(* C13 as amended: the same command sent twice is answered with the same   *)
(* status and body when the store answers it alike, and the two responses  *)
(* have the same shape whenever the store invocation succeeds both times   *)
(* or fails both times.                                                    *)
C13_SameShapeOnLikeOutcomes ==
    \A r, q \in reqs :
        SameCommandTwice(r, q) =>
            /\ settled[r] = settled[q] => Response(r) = Response(q)
            /\ Succeeded(r) = Succeeded(q) => Shape(Response(r)) = Shape(Response(q))

\* The same command was sent twice and failed twice at the store, in
\* different ways.
C13_Witness ==
    \E r, q \in reqs :
        /\ SameCommandTwice(r, q)
        /\ ~Succeeded(r) /\ ~Succeeded(q)
        /\ settled[r] # settled[q]


-----------------------------------------------------------------------------
(* The application from createApp on                                       *)

requestVars == <<reqs, path, cred, raw, pc, entered, invoked, settled, responses, pipe>>

\* The call of createApp.
Construct ==
    /\ app.state = "new"
    /\ app' = CreateApp(app.config)
    /\ UNCHANGED <<requestVars, pipelines>>

\* Bodies and credentials of the requests the app of AppSpec receives.
AppBodies ==
    { [json |-> Arr(<<Str("GET"), Str("k")>>)],
      [json |-> Arr(<<Arr(<<Str("GET"), Str("k")>>)>>)] }

\* The server receives NumRequests requests that carry the token.
Arrive ==
    /\ Serving
    /\ reqs = {}
    /\ LET rs == 1..NumRequests IN
       /\ reqs' = rs
       /\ path' \in [rs -> Paths]
       /\ cred' = [r \in rs |-> "valid"]
       /\ raw' \in [rs -> AppBodies]
       /\ pc' = [r \in rs |-> "received"]
       /\ entered' = [r \in rs |-> FALSE]
       /\ invoked' = [r \in rs |-> <<>>]
       /\ settled' = [r \in rs |-> <<>>]
       /\ responses' = [r \in rs |-> <<>>]
       /\ pipe' = [r \in rs |-> 0]
    /\ UNCHANGED <<app, pipelines>>

\* The connection reports an error through the client's "error" event.
RedisError ==
    /\ app.state = "created"
    /\ app.errors < MaxErrors
    /\ app' = OnRedisError(app)
    /\ UNCHANGED <<requestVars, pipelines>>

AppInit ==
    /\ app \in {NewApp(config) : config \in Configs}
    /\ reqs = {}
    /\ path = <<>> /\ cred = <<>> /\ raw = <<>> /\ pc = <<>>
    /\ entered = <<>> /\ invoked = <<>> /\ settled = <<>>
    /\ responses = <<>> /\ pipe = <<>>
    /\ pipelines = <<>>

AppNext ==
    \/ Construct
    \/ Arrive
    \/ RedisError
    \/ \E r \in 1..NumRequests : Step(r)

AppSpec == AppInit /\ [][AppNext]_vars

\* Every handler the runtime has scheduled runs, and every store invocation
\* settles; connection errors come as they may.
AppFairSpec == AppSpec /\ \A r \in 1..NumRequests : WF_vars(Step(r))


\* createApp was called with no token or an empty one.
TokenMissing == "token" \notin DOMAIN app.config \/ app.config.token = ""

(* C14: createApp called with a missing or empty token fails with "token   *)
(* is required in configuration" before any store client is created and    *)
(* before any route or middleware is registered; called with a non-empty   *)
(* token it returns an app.                                                *)
C14_TokenRequired ==
    app.state # "new" =>
        IF TokenMissing
        THEN /\ app.state = "threw"
             /\ app.error = "token is required in configuration"
             /\ app.clients = 0 /\ app.listeners = 0
             /\ app.middleware = {} /\ app.routes = {}
             /\ reqs = {}
        ELSE /\ app.state = "created"
             /\ app.error = ""

\* createApp was called with an empty token and a redisUrl, and threw.
C14_Witness ==
    /\ app.state = "threw"
    /\ "token" \in DOMAIN app.config
    /\ "redisUrl" \in DOMAIN app.config

(* C16: the store client is created once per createApp call and no request *)
(* handler creates, closes or reconfigures it; a connection error reported  *)
(* through the client's error callback changes no request's state and ends  *)
(* nothing, every request is still answered, and a request is answered 500  *)
(* only after its own store invocation failed.                             *)
C16_ConnectionFaultsHarmless ==
    /\ [](app.state = "created" => app.clients = 1)
    /\ [][(\E r \in 1..NumRequests : Step(r)) => app' = app]_vars
    /\ [][RedisError =>
             /\ app'.state = app.state /\ app'.clients = app.clients
             /\ UNCHANGED <<requestVars, pipelines>>]_vars
    /\ [](\A r \in reqs :
             Done(r) /\ Response(r).status = 500 =>
                 /\ Len(settled[r]) = 1
                 /\ DOMAIN settled[r][1] \in {{"thrown"}, {"null"}})
    /\ []<>(\A r \in reqs : Len(responses[r]) = 1)

\* The connection has reported errors, one request was answered with its own
\* store failure and another is still waiting for the store.
C16_Witness ==
    /\ app.errors > 0
    /\ \E r, q \in reqs :
          /\ Done(r) /\ Response(r).status = 500
          /\ pc[q] \in {"awaitCall", "awaitExec"}


-----------------------------------------------------------------------------
(* The error mapper on its own                                             *)

\* The faults that can reach app.onError: an HTTPException with its status
\* and, or not, its own response; an Error with its message and stack; a
\* thrown value that is no Error.
Faults ==
    {[status |-> s, res |-> res] :
        s \in {400, 401},
        res \in {Text("Unauthorized", 401), Text("Bad Request", 400),
                 Json(ErrorBody("invalid token"), 401)}}
        \cup {[status |-> s] : s \in {400, 401, 403}}
        \cup {[message |-> m, stack |-> "Error: " \o m \o " at createApp (app.js)"] :
                 m \in {"Connection is closed.", "Context is not finalized"}}
        \cup {[value |-> "boom"]}

\* A fault thrown while request r is processed reaches app.onError, which
\* answers.
ErrorRaised(r) ==
    /\ Serving
    /\ r \in reqs
    /\ pc[r] = "received"
    /\ \E f \in Faults :
          /\ settled' = [settled EXCEPT ![r] = Append(@, [fault |-> f])]
          /\ Respond(r, OnError(f))
    /\ UNCHANGED <<app, reqs, path, cred, raw, entered, invoked, pipe, pipelines>>

MapperInit == Received({1}, Creds, ConcBodies)

MapperNext == \E r \in 1..NumRequests : ErrorRaised(r)

MapperSpec == MapperInit /\ [][MapperNext]_vars

\* The fault app.onError answered for request r.
FaultOf(r) == settled[r][1].fault

Mapped(r) == Done(r) /\ settled[r] # <<>> /\ "fault" \in DOMAIN settled[r][1]

(* C12: a fault that reaches the error mapper and carries a numeric status *)
(* is answered with its own response when it has one, otherwise with the   *)
(* text "Unauthorized" at its status; any other fault is answered exactly  *)
(* 500 {error: "Internal server error"}, with nothing of the fault in the  *)
(* body.                                                                   *)
C12_ErrorMapper ==
    \A r \in reqs :
        Mapped(r) =>
            LET f == FaultOf(r) IN
            /\ "status" \in DOMAIN f /\ "res" \in DOMAIN f => Response(r) = f.res
            /\ "status" \in DOMAIN f /\ "res" \notin DOMAIN f =>
                  Response(r) = [status |-> f.status, text |-> "Unauthorized"]
            /\ "status" \notin DOMAIN f =>
                  Response(r) = [status |-> 500, json |-> [error |-> "Internal server error"]]

\* An Error with a message and a stack reached the mapper and was answered.
C12_Witness ==
    \E r \in reqs : Mapped(r) /\ "stack" \in DOMAIN FaultOf(r)

====
